---- MODULE Spec2Model ----
(***************************************************************************)
(* AI Weather Reporter (weather_app.py).                                   *)
(*                                                                         *)
(* WeatherApp is the Qt main thread: a line edit, a submit button and      *)
(* three labels.  start_worker hands a WeatherWorker to the thread pool;   *)
(* the worker's run() fetches the weather, asks the generation endpoint    *)
(* for a summary (3 attempts, exponential backoff) and reports through     *)
(* the signals result / error / finished, which Qt queues to the main      *)
(* thread and delivers to display_weather / display_error /                *)
(* worker_finished in emission order.                                      *)
(*                                                                         *)
(* JSON objects are functions from keys to values (a missing key is a key  *)
(* outside the DOMAIN), JSON arrays are sequences.  Temperatures are kept  *)
(* in hundredths of a Kelvin so that 273.15 is the integer 27315.          *)
(***************************************************************************)
EXTENDS Integers, Sequences, FiniteSets, TLC

\* How many WeatherWorker objects the model can hold alive at once.
MaxWorkers == 2

WorkerIds == 1..MaxWorkers

\* for attempt in range(max_retries)
max_retries == 3

\* wait_time = 1
initial_wait_time == 1

-----------------------------------------------------------------------------
(* Python values *)

\* os.getenv of an unset variable
None == "<None>"

\* {}
EmptyDict == [k \in {} |-> 0]

\* d.get(k, default)
Get(d, k, default) == IF k \in DOMAIN d THEN d[k] ELSE default

\* Values OPENWEATHER_API_KEY can have when run() reads it.
EnvValues == {None, "", "owm-key"}

\* NotSet with `is None` in place of `not`: an empty value counts as a credential.
NotSet_NoneOnly(value) == value = None

\* Python truthiness of an os.getenv result: `not value`.
NotSet(value) == value = None \/ value = ""

-----------------------------------------------------------------------------
(* The fixed texts of the program *)

MissingKeyMessage == "ERROR: OPENWEATHER_API_KEY not set."
InvalidResponseMessage == "City not found or invalid response from weather API."
BadRequestMessage == "Bad Request: Check city spelling."
UnauthorizedMessage == "Unauthorized: Invalid OpenWeatherMap Key."
NotFoundMessage == "Not Found: City not found."
EnterCityMessage == "Please enter a city name."
FetchingText == "Fetching weather and generating AI summary..."

ConnectionErrorMessage(e) ==
    "Connection Error: Check your internet or API access. (" \o e \o ")"

UnexpectedErrorMessage(e) ==
    "An unexpected error occurred during weather fetch: " \o e

UnavailableText == "AI response unavailable."
FailedToConnectText == "AI reporter failed to connect after multiple attempts."
AnalyzingText == "AI reporter analyzing data..."
OfflineText == "AI reporter is offline."
AnalysisFailedText == "AI analysis failed."

-----------------------------------------------------------------------------
(* What the two remote services can answer *)

\* response.json() of a decoded body: an object, an array, or text that is no JSON.
Object(v) == [type |-> "object", v |-> v]
Array == [type |-> "array", v |-> EmptyDict]
InvalidJson == [type |-> "invalid", v |-> EmptyDict]

FullBody ==
    [cod |-> 200, name |-> "Paris",
     main |-> [temp |-> 29315, feels_like |-> 29265, humidity |-> 40],
     wind |-> [speed |-> 3],
     weather |-> <<[id |-> 800, main |-> "Clear", description |-> "clear sky"]>>]

\* cod == 200 with an icy condition and a temperature below zero Celsius
SleetBody ==
    [cod |-> 200, name |-> "Oslo",
     main |-> [temp |-> 26855, feels_like |-> 26500, humidity |-> 90],
     wind |-> [speed |-> 7],
     weather |-> <<[id |-> 511, main |-> "Rain", description |-> "freezing rain"]>>]

\* no cod field at all
NoCodBody ==
    [name |-> "Paris",
     main |-> [temp |-> 29315, feels_like |-> 29265, humidity |-> 40],
     wind |-> [speed |-> 3],
     weather |-> <<[id |-> 800, main |-> "Clear", description |-> "clear sky"]>>]

\* a cod other than 200
Cod404Body == [cod |-> 404, message |-> "city not found"]

\* cod == 200 but no "main" object
NoMainBody ==
    [cod |-> 200, name |-> "Paris",
     wind |-> [speed |-> 3],
     weather |-> <<[id |-> 800, main |-> "Clear", description |-> "clear sky"]>>]

\* cod == 200 but an empty "weather" array
EmptyWeatherBody ==
    [cod |-> 200, name |-> "Paris",
     main |-> [temp |-> 29315, feels_like |-> 29265, humidity |-> 40],
     wind |-> [speed |-> 3],
     weather |-> <<>>]

\* cod == 200, everything the prompt reads, but no condition id
NoIdBody ==
    [cod |-> 200,
     main |-> [temp |-> 29315, feels_like |-> 29265, humidity |-> 40],
     wind |-> [speed |-> 3],
     weather |-> <<[main |-> "Clear", description |-> "clear sky"]>>]

\* a full body that already has a field named ai_description
TaggedBody ==
    [cod |-> 200, name |-> "Paris", ai_description |-> "from the weather service",
     main |-> [temp |-> 29315, feels_like |-> 29265, humidity |-> 40],
     wind |-> [speed |-> 3],
     weather |-> <<[id |-> 800, main |-> "Clear", description |-> "clear sky"]>>]

WeatherDocs ==
    {InvalidJson, Array} \cup
    {Object(b) : b \in {FullBody, SleetBody, NoCodBody, Cod404Body, NoMainBody,
                        EmptyWeatherBody, NoIdBody, TaggedBody}}

\* HTTP statuses the weather endpoint answers with.
WeatherStatuses == {200, 300, 400, 401, 403, 404, 500}

\* HTTP statuses the generation endpoint answers with.
GenStatuses == {200, 429, 503}

AiText == "Sunny and mild in Paris."

TextPart(t) == [candidates |-> <<[content |-> [parts |-> <<[text |-> t]>>]]>>]

GenDocs ==
    {InvalidJson, Array} \cup
    {Object(b) : b \in
        {TextPart(AiText),
         TextPart(""),
         [promptFeedback |-> "blocked"],
         [candidates |-> <<>>],
         [candidates |-> <<[finishReason |-> "SAFETY"]>>],
         [candidates |-> <<[content |-> [role |-> "model"]]>>],
         [candidates |-> <<[content |-> [parts |-> <<>>]]>>],
         [candidates |-> <<[content |-> [parts |-> <<[inlineData |-> "x"]>>]]>>]}}

\* RaiseForStatus raising for server errors only.
RaiseForStatus_ServerOnly(status) == 500 <= status /\ status < 600

\* response.raise_for_status() raises HTTPError for 4xx and 5xx.
RaiseForStatus(status) == 400 <= status /\ status < 600

\* One call of requests.get / requests.post: an exception of the transport, or a
\* response with a status and a body (read only when raise_for_status passes).
Outcomes(statuses, docs) ==
    {[kind |-> "transport", status |-> 0, doc |-> InvalidJson]} \cup
    {[kind |-> "response", status |-> s, doc |-> InvalidJson] :
        s \in {t \in statuses : RaiseForStatus(t)}} \cup
    {[kind |-> "response", status |-> s, doc |-> d] :
        s \in {t \in statuses : ~RaiseForStatus(t)}, d \in docs}

WeatherOutcomes == Outcomes(WeatherStatuses, WeatherDocs)
GenOutcomes == Outcomes(GenStatuses, GenDocs)

-----------------------------------------------------------------------------
(* State *)

VARIABLES
    apiKey,                 \* os.getenv("OPENWEATHER_API_KEY")
    jsonErrorIsRequestException,
                            \* whether the installed requests raises its own
                            \* JSONDecodeError (a RequestException, requests >= 2.27)
                            \* from response.json(), or the json module's ValueError
    city_input,             \* text of the line edit
    get_weather_button,     \* whether the submit button is enabled
    temperature_label,      \* text of the three labels ("" when cleared)
    emoji_label,
    description_label,
    aborted,                \* an exception left a slot: PyQt5 calls qFatal()
    workers,                \* WeatherWorker objects, by slot
    queue,                  \* signals queued to the main thread, oldest first
    delivered               \* per worker, the signals whose slot has run, in order

ui == <<city_input, get_weather_button, temperature_label, emoji_label,
        description_label, aborted>>
env == <<apiKey, jsonErrorIsRequestException>>
vars == <<apiKey, jsonErrorIsRequestException, city_input, get_weather_button,
          temperature_label, emoji_label, description_label, aborted, workers,
          queue, delivered>>

\* One entry of a worker's log: a network call, a backoff wait or an emitted signal.
LogEntry(op, what, msg, n) == [op |-> op, what |-> what, msg |-> msg, n |-> n]

\* A slot that holds no worker.  raw keeps the weather body as response.json()
\* returned it, for comparison with the dict that run() goes on to change.
NoWorker ==
    [pc |-> "none", city_name |-> "", weather_data |-> EmptyDict, attempt |-> 0,
     wait_time |-> 0, ai_description |-> "", error_message |-> "", log |-> <<>>,
     raw |-> EmptyDict]

\* WeatherWorker.__init__: a runnable waiting in the thread pool.
NewWorker(city) == [NoWorker EXCEPT !.pc = "queued", !.city_name = city]

-----------------------------------------------------------------------------
(* WeatherWorker.run, weather stage *)

\* HttpErrorMessage with the cases 401 and 404 exchanged.
HttpErrorMessage_Swapped(status_code) ==
    CASE status_code = 400 -> BadRequestMessage
      [] status_code = 404 -> UnauthorizedMessage
      [] status_code = 401 -> NotFoundMessage
      [] OTHER -> "HTTP Error " \o ToString(status_code) \o ": Please try again."

\* match status_code: the message of an HTTPError.  The HTTPError comes from
\* raise_for_status, so response is bound and status_code is its status.
HttpErrorMessage(status_code) ==
    CASE status_code = 400 -> BadRequestMessage
      [] status_code = 401 -> UnauthorizedMessage
      [] status_code = 404 -> NotFoundMessage
      [] OTHER -> "HTTP Error " \o ToString(status_code) \o ": Please try again."

\* CodIs200 with a missing cod taken for 200.
CodIs200_AbsentPasses(weather_data) == Get(weather_data, "cod", 200) = 200

\* weather_data.get('cod') != 200 is false
CodIs200(weather_data) == Get(weather_data, "cod", 0) = 200

\* The class of one network outcome, as the log names it.
OutcomeClass(out) ==
    CASE out.kind = "transport" -> "transport"
      [] RaiseForStatus(out.status) -> "http_error"
      [] out.doc.type = "invalid" -> "invalid_json"
      [] out.doc.type = "array" -> "array"
      [] OTHER -> "object"

\* FailRun with an except clause that emits nothing.
FailRun_Swallowed(wk, message) ==
    [wk EXCEPT !.error_message = message, !.pc = "finally"]

\* FailRun with one retry of the weather request after its first failure.
FailRun_RetryOnce(wk, message) ==
    IF Len(wk.log) = 1 /\ wk.log[1].what \in {"transport", "http_error"}
    THEN [wk EXCEPT !.pc = "weather"]
    ELSE [wk EXCEPT !.error_message = message, !.pc = "emit_error"]

\* The run fails inside the try statement (an except clause, or the cod check and
\* its return): error is emitted with this message next, then the finally clause.
FailRun(wk, message) == [wk EXCEPT !.error_message = message, !.pc = "emit_error"]

\* Lines 40-48 and the except clauses they reach, for one answer of the endpoint.
WeatherStep(wk, out) ==
    LET logged == [wk EXCEPT
                     !.log = Append(@, LogEntry("get", OutcomeClass(out), "", out.status))]
    IN  CASE out.kind = "transport" ->
               FailRun(logged, ConnectionErrorMessage("connection failed"))
          [] RaiseForStatus(out.status) ->
               FailRun(logged, HttpErrorMessage(out.status))
          [] out.doc.type = "invalid" ->
               IF jsonErrorIsRequestException
               THEN FailRun(logged, ConnectionErrorMessage("Expecting value"))
               ELSE FailRun(logged, UnexpectedErrorMessage("Expecting value"))
          [] out.doc.type = "array" ->
               FailRun(logged, UnexpectedErrorMessage("no attribute 'get'"))
          [] ~CodIs200(out.doc.v) ->
               FailRun([logged EXCEPT !.weather_data = out.doc.v, !.raw = out.doc.v],
                          InvalidResponseMessage)
          [] OTHER ->
               [logged EXCEPT !.weather_data = out.doc.v, !.raw = out.doc.v,
                               !.pc = "prompt"]

-----------------------------------------------------------------------------
(* WeatherWorker._generate_ai_description *)

\* Lines 83-89: every subscript the prompt needs finds its key (data.get('name')
\* has a default and needs none).
PromptFieldsPresent(data) ==
    /\ "main" \in DOMAIN data
    /\ {"temp", "feels_like", "humidity"} \subseteq DOMAIN data.main
    /\ "wind" \in DOMAIN data
    /\ "speed" \in DOMAIN data.wind
    /\ "weather" \in DOMAIN data
    /\ Len(data.weather) > 0
    /\ {"main", "description"} \subseteq DOMAIN data.weather[1]

\* for attempt in range(max_retries): the loop head with the next value of attempt;
\* the statement after the loop when the range is exhausted.
ForNext(wk, attempt) ==
    IF attempt < max_retries
    THEN [wk EXCEPT !.attempt = attempt, !.pc = "post"]
    ELSE [wk EXCEPT !.attempt = attempt, !.ai_description = OfflineText,
                    !.pc = "emit_result"]

\* return text
Return(wk, text) == [wk EXCEPT !.ai_description = text, !.pc = "emit_result"]

\* Line 129, first half: candidates[0] or parts[0] raises IndexError or a get is
\* applied to something that is no dict.
ExtractRaises(doc) ==
    \/ doc.type # "object"
    \/ LET candidates == Get(doc.v, "candidates", <<EmptyDict>>)
       IN  \/ Len(candidates) = 0
           \/ LET parts == Get(Get(candidates[1], "content", EmptyDict), "parts",
                               <<EmptyDict>>)
              IN  Len(parts) = 0

\* Line 129: result.get('candidates', [{}])[0].get('content', {})
\*               .get('parts', [{}])[0].get('text', 'AI response unavailable.')
ExtractText(result) ==
    LET candidates == Get(result, "candidates", <<EmptyDict>>)
        content == Get(candidates[1], "content", EmptyDict)
        parts == Get(content, "parts", <<EmptyDict>>)
    IN  Get(parts[1], "text", UnavailableText)

\* OnRequestException with `attempt < max_retries`: the last attempt waits too.
OnRequestException_OffByOne(wk) ==
    IF wk.attempt < max_retries
    THEN [wk EXCEPT !.pc = "sleep"]
    ELSE Return(wk, FailedToConnectText)

\* OnRequestException as it would be with `except Exception` written first: the
\* generic clause takes every exception.
OnRequestException_GenericFirst(wk) == Return(wk, AnalyzingText)

\* OnRequestException without its else branch: every failure waits.
OnRequestException_NoElse(wk) == [wk EXCEPT !.pc = "sleep"]

\* except requests.exceptions.RequestException
OnRequestException(wk) ==
    IF wk.attempt < max_retries - 1
    THEN [wk EXCEPT !.pc = "sleep"]
    ELSE Return(wk, FailedToConnectText)

\* OnException without the except clause: the exception leaves the function.
OnException_Propagates(wk) == FailRun(wk, UnexpectedErrorMessage("IndexError"))

\* except Exception
OnException(wk) == Return(wk, AnalyzingText)

\* The class of one answer of the generation endpoint, as the log names it.
GenClass(out) ==
    IF OutcomeClass(out) \in {"transport", "http_error", "invalid_json"}
    THEN OutcomeClass(out)
    ELSE IF out.doc.type # "object" THEN "bad_shape"
    ELSE IF ExtractRaises(out.doc) THEN "empty_list"
    ELSE IF "candidates" \in DOMAIN out.doc.v
            /\ "content" \in DOMAIN out.doc.v.candidates[1]
            /\ "parts" \in DOMAIN out.doc.v.candidates[1].content
            /\ "text" \in DOMAIN out.doc.v.candidates[1].content.parts[1]
         THEN "text"
    ELSE "no_text"

\* Lines 119-141: one pass of the loop body for one answer of the endpoint.
GenStep(wk, out) ==
    LET logged == [wk EXCEPT
                     !.log = Append(@, LogEntry("post", GenClass(out), "", wk.attempt + 1))]
    IN  CASE out.kind = "transport" -> OnRequestException(logged)
          [] RaiseForStatus(out.status) -> OnRequestException(logged)
          [] out.doc.type = "invalid" ->
               IF jsonErrorIsRequestException
               THEN OnRequestException(logged)
               ELSE OnException(logged)
          [] ExtractRaises(out.doc) -> OnException(logged)
          [] OTHER -> Return(logged, ExtractText(out.doc.v))

\* time.sleep(wait_time); wait_time *= 2, then the loop head.
SleepStep(wk) ==
    ForNext([wk EXCEPT !.log = Append(@, LogEntry("sleep", "", "", wk.wait_time)),
                       !.wait_time = 2 * @],
            wk.attempt + 1)

-----------------------------------------------------------------------------
(* Signals *)

\* signal.emit(...) seen from the worker: the entry its log gets.
Emitted(wk, sig, msg) == [wk EXCEPT !.log = Append(@, LogEntry("emit", sig, msg, 0))]

\* signal.emit(...) seen from the main thread: the queued call of the connected slot.
Signal(w, sig, msg, data) == [w |-> w, sig |-> sig, msg |-> msg, data |-> data]

\* SetItem building a new dict with the one key.
SetItem_OnlyKey(d, k, v) == [x \in {k} |-> v]

\* d[k] = v
SetItem(d, k, v) == [x \in DOMAIN d \cup {k} |-> IF x = k THEN v ELSE d[x]]

-----------------------------------------------------------------------------
(* WeatherWorker.run, step by step: a step ends at a network call, a wait or an
   emitted signal *)

\* Lines 33-37: the credential check, before the try statement.
RunStart(w) ==
    /\ ~aborted
    /\ workers[w].pc = "queued"
    /\ IF NotSet(apiKey)
       THEN /\ workers' = [workers EXCEPT
                             ![w] = [Emitted(@, "error", MissingKeyMessage)
                                       EXCEPT !.pc = "returned"]]
            /\ queue' = Append(queue, Signal(w, "error", MissingKeyMessage, EmptyDict))
       ELSE /\ workers' = [workers EXCEPT ![w].pc = "weather"]
            /\ queue' = queue
    /\ UNCHANGED <<env, ui, delivered>>

\* Lines 40-48: requests.get, raise_for_status, response.json and the cod check.
WeatherFetch(w) ==
    /\ ~aborted
    /\ workers[w].pc = "weather"
    /\ \E out \in WeatherOutcomes :
           workers' = [workers EXCEPT ![w] = WeatherStep(@, out)]
    /\ UNCHANGED <<env, ui, queue, delivered>>

\* Lines 83-116: the prompt is built from the weather fields; a missing field raises
\* KeyError or IndexError out of _generate_ai_description into run's except Exception.
PromptStep(wk) ==
    IF PromptFieldsPresent(wk.weather_data)
    THEN ForNext([wk EXCEPT !.wait_time = initial_wait_time], 0)
    ELSE FailRun(wk, UnexpectedErrorMessage("KeyError"))

BuildPrompt(w) ==
    /\ ~aborted
    /\ workers[w].pc = "prompt"
    /\ workers' = [workers EXCEPT ![w] = PromptStep(@)]
    /\ UNCHANGED <<env, ui, queue, delivered>>

\* Lines 119-141: one requests.post and what the loop body makes of its answer.
GenAttempt(w) ==
    /\ ~aborted
    /\ workers[w].pc = "post"
    /\ \E out \in GenOutcomes :
           workers' = [workers EXCEPT ![w] = GenStep(@, out)]
    /\ UNCHANGED <<env, ui, queue, delivered>>

\* Lines 136-137: the backoff wait is over.
BackoffSleep(w) ==
    /\ ~aborted
    /\ workers[w].pc = "sleep"
    /\ workers' = [workers EXCEPT ![w] = SleepStep(@)]
    /\ UNCHANGED <<env, ui, queue, delivered>>

\* Lines 51-55: the summary is attached and result is emitted.
EmitResult(w) ==
    /\ ~aborted
    /\ workers[w].pc = "emit_result"
    /\ LET data == SetItem(workers[w].weather_data, "ai_description",
                           workers[w].ai_description)
       IN  /\ workers' = [workers EXCEPT
                            ![w] = [Emitted(@, "result", @.ai_description)
                                      EXCEPT !.weather_data = data, !.pc = "finally"]]
           /\ queue' = Append(queue, Signal(w, "result", "", data))
    /\ UNCHANGED <<env, ui, delivered>>

\* EmitError with finished emitted ahead of error.
EmitError_FinishedFirst(w) ==
    /\ ~aborted
    /\ workers[w].pc = "emit_error"
    /\ workers' = [workers EXCEPT
                     ![w] = [Emitted(Emitted(@, "finished", ""), "error", @.error_message)
                               EXCEPT !.pc = "returned"]]
    /\ queue' = queue \o <<Signal(w, "finished", "", EmptyDict),
                           Signal(w, "error", workers[w].error_message, EmptyDict)>>
    /\ UNCHANGED <<env, ui, delivered>>

\* Lines 47, 69, 72, 75: error is emitted inside the try statement.
EmitError(w) ==
    /\ ~aborted
    /\ workers[w].pc = "emit_error"
    /\ workers' = [workers EXCEPT
                     ![w] = [Emitted(@, "error", @.error_message)
                               EXCEPT !.pc = "finally"]]
    /\ queue' = Append(queue, Signal(w, "error", workers[w].error_message, EmptyDict))
    /\ UNCHANGED <<env, ui, delivered>>

\* Lines 77-78: the finally clause of the try statement.
Finally(w) ==
    /\ ~aborted
    /\ workers[w].pc = "finally"
    /\ workers' = [workers EXCEPT
                     ![w] = [Emitted(@, "finished", "") EXCEPT !.pc = "returned"]]
    /\ queue' = Append(queue, Signal(w, "finished", "", EmptyDict))
    /\ UNCHANGED <<env, ui, delivered>>

-----------------------------------------------------------------------------
(* WeatherApp: the main thread *)

\* Texts the user can leave in the line edit.
Cities == {"", "Paris"}

\* get_wether_emoji with the rain test written as one range, 500 to 531.
get_wether_emoji_RainWide(weather_id) ==
    IF 200 <= weather_id /\ weather_id <= 232 THEN "thunderstorm"
    ELSE IF 300 <= weather_id /\ weather_id <= 321 THEN "sun behind rain cloud"
    ELSE IF weather_id = 511 THEN "ice and rain"
    ELSE IF 500 <= weather_id /\ weather_id <= 531 THEN "rain cloud"
    ELSE IF 600 <= weather_id /\ weather_id <= 622 THEN "snow cloud"
    ELSE IF weather_id \in {701, 721, 741, 761} THEN "fog"
    ELSE IF weather_id = 711 THEN "dash"
    ELSE IF weather_id = 731 THEN "fog"
    ELSE IF weather_id = 751 THEN "desert"
    ELSE IF weather_id = 762 THEN "volcano"
    ELSE IF weather_id = 771 THEN "dash"
    ELSE IF weather_id = 781 THEN "tornado"
    ELSE IF weather_id = 800 THEN "sun"
    ELSE IF weather_id = 801 THEN "sun behind small cloud"
    ELSE IF weather_id = 802 THEN "sun behind cloud"
    ELSE IF weather_id = 803 THEN "sun behind large cloud"
    ELSE IF weather_id = 804 THEN "cloud"
    ELSE "question mark"

\* The glyphs, by name.
get_wether_emoji(weather_id) ==
    IF 200 <= weather_id /\ weather_id <= 232 THEN "thunderstorm"
    ELSE IF 300 <= weather_id /\ weather_id <= 321 THEN "sun behind rain cloud"
    ELSE IF weather_id = 511 THEN "ice and rain"
    ELSE IF (500 <= weather_id /\ weather_id <= 504)
            \/ (520 <= weather_id /\ weather_id <= 531) THEN "rain cloud"
    ELSE IF 600 <= weather_id /\ weather_id <= 622 THEN "snow cloud"
    ELSE IF weather_id \in {701, 721, 741, 761} THEN "fog"
    ELSE IF weather_id = 711 THEN "dash"
    ELSE IF weather_id = 731 THEN "fog"
    ELSE IF weather_id = 751 THEN "desert"
    ELSE IF weather_id = 762 THEN "volcano"
    ELSE IF weather_id = 771 THEN "dash"
    ELSE IF weather_id = 781 THEN "tornado"
    ELSE IF weather_id = 800 THEN "sun"
    ELSE IF weather_id = 801 THEN "sun behind small cloud"
    ELSE IF weather_id = 802 THEN "sun behind cloud"
    ELSE IF weather_id = 803 THEN "sun behind large cloud"
    ELSE IF weather_id = 804 THEN "cloud"
    ELSE "question mark"

\* The conditions of the if / elif chain of get_wether_emoji, in its order.
EmojiBranches(weather_id) ==
    <<200 <= weather_id /\ weather_id <= 232,
      300 <= weather_id /\ weather_id <= 321,
      weather_id = 511,
      (500 <= weather_id /\ weather_id <= 504)
          \/ (520 <= weather_id /\ weather_id <= 531),
      600 <= weather_id /\ weather_id <= 622,
      weather_id \in {701, 721, 741, 761},
      weather_id = 711,
      weather_id = 731,
      weather_id = 751,
      weather_id = 762,
      weather_id = 771,
      weather_id = 781,
      weather_id = 800,
      weather_id = 801,
      weather_id = 802,
      weather_id = 803,
      weather_id = 804>>

\* What each branch of the chain returns, in the same order.
BranchGlyphs ==
    <<"thunderstorm", "sun behind rain cloud", "ice and rain", "rain cloud",
      "snow cloud", "fog", "dash", "fog", "desert", "volcano", "dash", "tornado",
      "sun", "sun behind small cloud", "sun behind cloud",
      "sun behind large cloud", "cloud">>

\* f"{x:.0f}" of x = c / 100: to the nearest integer, a tie to the even one, and the
\* sign kept when a negative value rounds to zero.
Format0f(c) ==
    LET q == c \div 100
        r == c % 100
        n == IF r > 50 \/ (r = 50 /\ q % 2 = 1) THEN q + 1 ELSE q
    IN  IF n = 0 /\ c < 0 THEN "-0" ELSE ToString(n)

\* A user edits the line edit.
TypeCity(c) ==
    /\ ~aborted
    /\ c # city_input
    /\ city_input' = c
    /\ UNCHANGED <<env, get_weather_button, temperature_label, emoji_label,
                   description_label, aborted, workers, queue, delivered>>

\* A slot can take a new worker once its last one has returned and every signal
\* that one emitted has been delivered.
FreeSlots ==
    {w \in WorkerIds :
        /\ workers[w].pc \in {"none", "returned"}
        /\ \A i \in DOMAIN queue : queue[i].w # w}

\* Clickable for a button that is never really disabled.
Clickable_Always == TRUE

\* The submit button takes clicks only while it is enabled.
Clickable == get_weather_button

\* start_worker, the slot of get_weather_button.clicked.  With an empty city it
\* calls self.dispaly_error, an attribute WeatherApp does not have: AttributeError
\* leaves the slot.
start_worker ==
    /\ ~aborted
    /\ Clickable
    /\ IF city_input = ""
       THEN /\ aborted' = TRUE
            /\ UNCHANGED <<get_weather_button, temperature_label, emoji_label,
                           description_label, workers, delivered>>
       ELSE /\ FreeSlots # {}
            /\ LET w == CHOOSE x \in FreeSlots : \A y \in FreeSlots : x <= y
               IN  /\ workers' = [workers EXCEPT ![w] = NewWorker(city_input)]
                   /\ delivered' = [delivered EXCEPT ![w] = <<>>]
            /\ get_weather_button' = FALSE
            /\ description_label' = FetchingText
            /\ temperature_label' = ""
            /\ emoji_label' = ""
            /\ aborted' = aborted
    /\ UNCHANGED <<env, city_input, queue>>

\* The event loop takes the oldest queued signal of kind sig.
Take(sig) ==
    /\ ~aborted
    /\ queue # <<>>
    /\ Head(queue).sig = sig
    /\ queue' = Tail(queue)
    /\ delivered' = [delivered EXCEPT ![Head(queue).w] = Append(@, sig)]

\* display_weather(data): temperature, glyph, summary; data["weather"][0]["id"] of a
\* payload without it raises after the temperature has been set.
display_weather ==
    /\ Take("result")
    /\ LET data == Head(queue).data
       IN  /\ temperature_label' = Format0f(data.main.temp - 27315) \o " deg"
           /\ IF "id" \in DOMAIN data.weather[1]
              THEN /\ emoji_label' = get_wether_emoji(data.weather[1].id)
                   /\ description_label' = Get(data, "ai_description", AnalysisFailedText)
                   /\ aborted' = aborted
              ELSE /\ aborted' = TRUE
                   /\ UNCHANGED <<emoji_label, description_label>>
    /\ UNCHANGED <<env, city_input, get_weather_button, workers>>

\* display_error(message)
display_error ==
    /\ Take("error")
    /\ temperature_label' = Head(queue).msg
    /\ emoji_label' = ""
    /\ description_label' = ""
    /\ UNCHANGED <<env, city_input, get_weather_button, aborted, workers>>

\* worker_finished()
worker_finished ==
    /\ Take("finished")
    /\ get_weather_button' = TRUE
    /\ UNCHANGED <<env, city_input, temperature_label, emoji_label,
                   description_label, aborted, workers>>

-----------------------------------------------------------------------------
(* The program *)

Init ==
    /\ apiKey \in EnvValues
    /\ jsonErrorIsRequestException \in BOOLEAN
    /\ city_input = ""
    /\ get_weather_button = TRUE
    /\ temperature_label = ""
    /\ emoji_label = ""
    /\ description_label = ""
    /\ aborted = FALSE
    /\ workers = [w \in WorkerIds |-> NoWorker]
    /\ queue = <<>>
    /\ delivered = [w \in WorkerIds |-> <<>>]

Next ==
    \/ \E c \in Cities : TypeCity(c)
    \/ start_worker
    \/ \E w \in WorkerIds : RunStart(w)
    \/ \E w \in WorkerIds : WeatherFetch(w)
    \/ \E w \in WorkerIds : BuildPrompt(w)
    \/ \E w \in WorkerIds : GenAttempt(w)
    \/ \E w \in WorkerIds : BackoffSleep(w)
    \/ \E w \in WorkerIds : EmitResult(w)
    \/ \E w \in WorkerIds : EmitError(w)
    \/ \E w \in WorkerIds : Finally(w)
    \/ display_weather
    \/ display_error
    \/ worker_finished

Spec == Init /\ [][Next]_vars

-----------------------------------------------------------------------------
(* display_weather and get_wether_emoji over the condition codes *)

\* The largest condition code the weather endpoint answers with.
MaxCode == 850

\* A full weather body with the given condition code.
EmojiBody(id) == [FullBody EXCEPT !.weather = <<[@[1] EXCEPT !.id = id]>>]

\* The worker of a run whose weather body was body and whose first generation
\* request returned AiText, right after it has emitted result.
WorkerAfterResult(body) ==
    LET fetched == WeatherStep([NewWorker("Paris") EXCEPT !.pc = "weather"],
                               [kind |-> "response", status |-> 200, doc |-> Object(body)])
        summarized == GenStep(PromptStep(fetched),
                              [kind |-> "response", status |-> 200,
                               doc |-> Object(TextPart(AiText))])
    IN  [Emitted(summarized, "result", summarized.ai_description) EXCEPT
            !.weather_data = SetItem(@, "ai_description", summarized.ai_description),
            !.pc = "finally"]

\* The application with one run at the point where result is queued, for every
\* condition code.
EmojiInit ==
    /\ apiKey = "owm-key"
    /\ jsonErrorIsRequestException = TRUE
    /\ city_input = "Paris"
    /\ get_weather_button = FALSE
    /\ temperature_label = ""
    /\ emoji_label = ""
    /\ description_label = FetchingText
    /\ aborted = FALSE
    /\ \E id \in 0..MaxCode :
           /\ workers = [w \in WorkerIds |->
                            IF w = 1 THEN WorkerAfterResult(EmojiBody(id)) ELSE NoWorker]
           /\ queue = <<Signal(1, "result", "", WorkerAfterResult(EmojiBody(id)).weather_data)>>
    /\ delivered = [w \in WorkerIds |-> <<>>]

\* The rest of the run: the finally clause, and the slots of result and finished.
EmojiNext ==
    \/ \E w \in WorkerIds : Finally(w)
    \/ display_weather
    \/ worker_finished

EmojiSpec == EmojiInit /\ [][EmojiNext]_vars

-----------------------------------------------------------------------------
(* Reading a worker's log *)

\* The signals a worker has emitted, in order.
Emits(wk) == SelectSeq(wk.log, LAMBDA e : e.op = "emit")

\* The requests a worker has made to the generation endpoint, in order.
Posts(wk) == SelectSeq(wk.log, LAMBDA e : e.op = "post")

\* The requests and waits of _generate_ai_description, in order.
GenOps(wk) == SelectSeq(wk.log, LAMBDA e : e.op \in {"post", "sleep"})

\* How often a worker has emitted sig.
EmitCount(wk, sig) == Len(SelectSeq(wk.log, LAMBDA e : e.op = "emit" /\ e.what = sig))

\* run() has returned.
Returned(wk) == wk.pc = "returned"

\* _generate_ai_description has returned a summary.
Summarized(wk) == wk.pc = "emit_result" \/ EmitCount(wk, "result") > 0

\* s is a prefix of t.
IsPrefix(s, t) == Len(s) <= Len(t) /\ \A i \in 1..Len(s) : s[i] = t[i]

-----------------------------------------------------------------------------
(* The claims *)

\* C1: every run of WeatherWorker.run that has returned has emitted finished
\* exactly once, as its last signal, whatever path it took (credential absent,
\* transport failure, HTTP error, cod check failed, unexpected exception, success).
C1_FinishedOnceAndLast ==
    \A w \in WorkerIds :
        Returned(workers[w]) =>
            /\ EmitCount(workers[w], "finished") = 1
            /\ workers[w].log[Len(workers[w].log)].what = "finished"

\* C2: a run never emits more than one outcome signal (result or error), and when
\* it has returned it has emitted exactly one: result once or error once, never
\* both, never neither.
C2_ExactlyOneOutcome ==
    \A w \in WorkerIds :
        LET n == EmitCount(workers[w], "result") + EmitCount(workers[w], "error")
        IN  /\ n <= 1
            /\ Returned(workers[w]) => n = 1

\* C2 witness: a run has returned after three generation requests with its one result.
C2_Witness ==
    \E w \in WorkerIds :
        /\ Returned(workers[w])
        /\ Len(Posts(workers[w])) = 3
        /\ EmitCount(workers[w], "result") = 1
        /\ EmitCount(workers[w], "error") = 0

\* C3: within a run finished is only ever emitted right after the run's result or
\* error and nothing is emitted after it, and the main thread runs the slots in
\* emission order: display_weather or display_error before worker_finished.
C3_OutcomeBeforeFinished ==
    \A w \in WorkerIds :
        LET em == Emits(workers[w])
        IN  /\ \A i \in 1..Len(em) :
                   em[i].what = "finished" =>
                       /\ i = Len(em)
                       /\ i > 1
                       /\ em[i - 1].what \in {"result", "error"}
            /\ IsPrefix(delivered[w], [i \in 1..Len(em) |-> em[i].what])
            /\ \A i \in 1..Len(delivered[w]) :
                   delivered[w][i] = "finished" =>
                       i > 1 /\ delivered[w][i - 1] \in {"result", "error"}

\* C3 witness: display_error and then worker_finished have run for a worker.
C3_Witness ==
    \E w \in WorkerIds : delivered[w] = <<"error", "finished">>

\* C4: with OPENWEATHER_API_KEY unset or empty a run makes no request to either
\* endpoint, never emits result, and has emitted error with the message
\* "ERROR: OPENWEATHER_API_KEY not set." when it returns.
C4_MissingKeyNoNetwork ==
    apiKey \in {None, ""} =>
        \A w \in WorkerIds :
            /\ \A i \in 1..Len(workers[w].log) :
                   workers[w].log[i].op \notin {"get", "post", "sleep"}
            /\ EmitCount(workers[w], "result") = 0
            /\ Returned(workers[w]) =>
                   /\ EmitCount(workers[w], "error") = 1
                   /\ \E i \in 1..Len(workers[w].log) :
                          /\ workers[w].log[i].what = "error"
                          /\ workers[w].log[i].msg = MissingKeyMessage

\* C4 witness: the variable is set to the empty string and display_error has shown
\* the message of the run.
C4_Witness ==
    /\ apiKey = ""
    /\ temperature_label = MissingKeyMessage
    /\ \E w \in WorkerIds : Returned(workers[w]) /\ delivered[w] = <<"error">>

\* The weather request of a run came back with a 2xx status and a JSON object
\* whose cod is 200.
WeatherPassed2xx(wk) ==
    /\ \E i \in 1..Len(wk.log) :
           /\ wk.log[i].op = "get"
           /\ wk.log[i].what = "object"
           /\ 200 <= wk.log[i].n /\ wk.log[i].n < 300
    /\ "cod" \in DOMAIN wk.weather_data
    /\ wk.weather_data.cod = 200

\* The run is past the weather stage with no error raised or emitted, and has
\* emitted result if it has returned.
OnlyResult(wk) ==
    /\ wk.pc # "emit_error"
    /\ EmitCount(wk, "error") = 0
    /\ Returned(wk) => EmitCount(wk, "result") = 1

\* C5 as claimed: once the weather response is 2xx with cod == 200 the run emits
\* result and never error, for every payload that passes the cod check and every
\* behaviour of the generation endpoint.
C5_AnyPayloadPassingCod ==
    \A w \in WorkerIds : WeatherPassed2xx(workers[w]) => OnlyResult(workers[w])

\* C5 as amended: once the weather response is 2xx with cod == 200 and the payload
\* carries every field the prompt reads (main.temp, main.feels_like, main.humidity,
\* wind.speed, weather[0].main, weather[0].description), the run emits result and
\* never error, for every behaviour of the generation endpoint.
C5_ResultOncePromptBuilt ==
    \A w \in WorkerIds :
        (WeatherPassed2xx(workers[w]) /\ PromptFieldsPresent(workers[w].weather_data))
            => OnlyResult(workers[w])

\* C5 witness: a run has returned with result although the generation endpoint
\* answered with a malformed body.
C5_Witness ==
    \E w \in WorkerIds :
        /\ Returned(workers[w])
        /\ WeatherPassed2xx(workers[w])
        /\ EmitCount(workers[w], "result") = 1
        /\ \E i \in 1..Len(workers[w].log) : workers[w].log[i].what = "bad_shape"
        /\ workers[w].ai_description = AnalyzingText

\* The log of three requests that all failed in the transport, with the waits.
ThreeTransportFailures ==
    <<LogEntry("post", "transport", "", 1), LogEntry("sleep", "", "", 1),
      LogEntry("post", "transport", "", 2), LogEntry("sleep", "", "", 2),
      LogEntry("post", "transport", "", 3)>>

\* C6: when every generation request of a call failed in the transport, the call
\* made exactly 3 requests, waited 1 before the 2nd and 2 before the 3rd (and at no
\* other time) and returned "AI reporter failed to connect after multiple
\* attempts."; that text is never returned after fewer than 3 failed requests.
C6_ThreeAttemptsBackoff ==
    \A w \in WorkerIds :
        LET wk == workers[w]
            posts == Posts(wk)
        IN  /\ (Summarized(wk) /\ \A i \in 1..Len(posts) : posts[i].what = "transport")
                   => /\ GenOps(wk) = ThreeTransportFailures
                      /\ wk.ai_description = FailedToConnectText
            /\ (Summarized(wk) /\ wk.ai_description = FailedToConnectText)
                   => /\ Len(posts) = 3
                      /\ \A i \in 1..3 :
                             posts[i].what \in {"transport", "http_error", "invalid_json"}

\* C6 witness: result carries the fallback after three transport failures.
C6_Witness ==
    \E w \in WorkerIds :
        /\ GenOps(workers[w]) = ThreeTransportFailures
        /\ \E i \in 1..Len(workers[w].log) :
               /\ workers[w].log[i].what = "result"
               /\ workers[w].log[i].msg = FailedToConnectText

\* C7: a generation attempt that fails with a payload or parse error (a body that
\* is no JSON, a JSON array, or an object with an empty candidates or parts list)
\* is the last step of the call: no wait and no request follows it, and the call
\* returns "AI reporter analyzing data...".
C7_ParseErrorReturnsAtOnce ==
    \A w \in WorkerIds :
        LET wk == workers[w]
        IN  \A i \in 1..Len(wk.log) :
                (wk.log[i].op = "post" /\ wk.log[i].what \in {"invalid_json", "bad_shape", "empty_list"})
                    => /\ wk.pc # "sleep"
                       /\ \A j \in (i + 1)..Len(wk.log) :
                              wk.log[j].op \notin {"post", "sleep"}
                       /\ wk.ai_description = AnalyzingText

\* The message the claim lists for an HTTP status.
ListedMessage(status) ==
    IF status = 400 THEN "Bad Request: Check city spelling."
    ELSE IF status = 401 THEN "Unauthorized: Invalid OpenWeatherMap Key."
    ELSE IF status = 404 THEN "Not Found: City not found."
    ELSE "HTTP Error " \o ToString(status) \o ": Please try again."

\* The run answers a weather response of this status with the listed error message
\* and nothing else: no summary stage, no result.
AnswersWithListedMessage(wk, status) ==
    /\ wk.pc \in {"emit_error", "finally", "returned"}
    /\ wk.error_message = ListedMessage(status)
    /\ Posts(wk) = <<>>
    /\ EmitCount(wk, "result") = 0
    /\ wk.pc # "emit_error" =>
           \E i \in 1..Len(wk.log) :
               /\ wk.log[i].op = "emit"
               /\ wk.log[i].what = "error"
               /\ wk.log[i].msg = ListedMessage(status)

C9_BadCodFails ==
    \A w \in WorkerIds :
        LET wk == workers[w]
        IN  (/\ \E i \in 1..Len(wk.log) :
                    /\ wk.log[i].op = "get"
                    /\ wk.log[i].what = "object"
                    /\ 200 <= wk.log[i].n /\ wk.log[i].n < 300
             /\ ("cod" \notin DOMAIN wk.weather_data \/ wk.weather_data.cod # 200))
                => /\ wk.pc \in {"emit_error", "finally", "returned"}
                   /\ wk.error_message = InvalidResponseMessage
                   /\ Posts(wk) = <<>>
                   /\ EmitCount(wk, "result") = 0
                   /\ wk.pc # "emit_error" =>
                          \E i \in 1..Len(wk.log) :
                              /\ wk.log[i].what = "error"
                              /\ wk.log[i].msg = InvalidResponseMessage

\* C9 witness: a 200 response without a cod field has ended in display_error.
C9_Witness ==
    /\ temperature_label = InvalidResponseMessage
    /\ \E w \in WorkerIds :
           /\ Returned(workers[w])
           /\ workers[w].log[1] = LogEntry("get", "object", "", 200)
           /\ workers[w].weather_data = NoCodBody

\* Every generation request of the run follows a weather response with a status
\* from lo up to (not including) hi whose body is a JSON object with cod == 200; a
\* run that has failed (error raised or emitted) has made no generation request.
GenerationOnlyAfter(wk, lo, hi) ==
    /\ \A j \in 1..Len(wk.log) :
           wk.log[j].op = "post" =>
               /\ \E i \in 1..(j - 1) :
                      /\ wk.log[i].op = "get"
                      /\ wk.log[i].what = "object"
                      /\ lo <= wk.log[i].n /\ wk.log[i].n < hi
               /\ "cod" \in DOMAIN wk.weather_data
               /\ wk.weather_data.cod = 200
    /\ (wk.pc = "emit_error" \/ EmitCount(wk, "error") > 0) => Posts(wk) = <<>>

Gets(wk) == SelectSeq(wk.log, LAMBDA e : e.op = "get")

\* C11: a run makes at most one request to the weather endpoint; when that request
\* fails in the transport or with an error status the run goes straight to its
\* error: no second weather request, no wait, no generation request, no result.
C11_OneWeatherRequest ==
    \A w \in WorkerIds :
        LET wk == workers[w]
        IN  /\ Len(Gets(wk)) <= 1
            /\ (Len(Gets(wk)) = 1 /\ Gets(wk)[1].what \in {"transport", "http_error"})
                   => /\ wk.pc \in {"emit_error", "finally", "returned"}
                      /\ GenOps(wk) = <<>>
                      /\ EmitCount(wk, "result") = 0
                      /\ wk.pc # "emit_error" => EmitCount(wk, "error") = 1

\* C11 witness: a run has returned after one weather request that failed in the
\* transport, with error and finished as its only other steps.
C11_Witness ==
    \E w \in WorkerIds :
        /\ Returned(workers[w])
        /\ Len(workers[w].log) = 3
        /\ workers[w].log[1] = LogEntry("get", "transport", "", 0)
        /\ workers[w].log[2].what = "error"
        /\ workers[w].log[3].what = "finished"

\* The payloads of result: those queued to display_weather, each with the raw
\* weather body and the summary of the worker that emitted it.
ResultPayloads ==
    {[data |-> queue[i].data,
      raw |-> workers[queue[i].w].raw,
      summary |-> workers[queue[i].w].ai_description] :
        i \in {j \in DOMAIN queue : queue[j].sig = "result"}}

\* The payload is the raw body with the summary under ai_description, and each of
\* the raw body's fields named in keys has the value it had in the response.
Enriched(p, keys) ==
    /\ DOMAIN p.data = DOMAIN p.raw \cup {"ai_description"}
    /\ p.data.ai_description = p.summary
    /\ \A k \in keys : p.data[k] = p.raw[k]

\* C12 as claimed: the payload of result is the raw weather response plus the
\* summary under ai_description, every field of the raw response keeping its value.
C12_EveryRawFieldKept ==
    \A p \in ResultPayloads : Enriched(p, DOMAIN p.raw)

\* C12 as amended: the payload of result is the raw weather response plus the
\* summary under ai_description, every field of the raw response other than a
\* field named ai_description keeping its value.
C12_OtherRawFieldsKept ==
    \A p \in ResultPayloads : Enriched(p, DOMAIN p.raw \ {"ai_description"})

\* C12 witness: result is queued with the full body and an AI-produced summary.
C12_Witness ==
    \E p \in ResultPayloads :
        /\ p.raw = FullBody
        /\ p.data.ai_description = AiText
        /\ p.data.main = FullBody.main

\* C13: a generation request answered 2xx with a JSON object in which the path
\* candidates[0].content.parts[0].text is absent (a key missing at some level, or
\* candidates or parts an empty list) ends the call: no wait and no request
\* follows, and the call returns "AI response unavailable.".
C13_AbsentPathUnavailable ==
    \A w \in WorkerIds :
        LET wk == workers[w]
        IN  \A i \in 1..Len(wk.log) :
                (wk.log[i].op = "post" /\ wk.log[i].what \in {"no_text", "empty_list"})
                    => /\ wk.pc # "sleep"
                       /\ \A j \in (i + 1)..Len(wk.log) :
                              wk.log[j].op \notin {"post", "sleep"}
                       /\ wk.ai_description = UnavailableText

\* C14: _generate_ai_description never returns "AI reporter is offline.": the loop
\* makes at most 3 requests, attempt stays below max_retries, and every call that
\* has returned did so from inside an iteration, after at least one request.
C14_OfflineUnreachable ==
    \A w \in WorkerIds :
        LET wk == workers[w]
        IN  /\ wk.ai_description # OfflineText
            /\ wk.attempt < max_retries
            /\ Len(Posts(wk)) <= max_retries
            /\ Summarized(wk) =>
                   /\ Len(Posts(wk)) >= 1
                   /\ Posts(wk)[Len(Posts(wk))].n = wk.attempt + 1

\* C14 witness: a call has returned from its third iteration, the first two
\* requests having failed (one in the transport, one otherwise).
C14_Witness ==
    \E w \in WorkerIds :
        /\ Summarized(workers[w])
        /\ Len(Posts(workers[w])) = 3
        /\ Posts(workers[w])[1].what = "transport"
        /\ Posts(workers[w])[2].what = "http_error"
        /\ workers[w].ai_description = AiText

\* C15: every payload of result carries a non-empty ai_description, whatever text
\* the generation endpoint returned and whichever fallback was used.
C15_SummaryNonEmpty ==
    \A p \in ResultPayloads : p.data.ai_description # ""

\* A worker is in flight: handed to the pool and not yet returned from run().
InFlight(wk) == wk.pc \notin {"none", "returned"}

\* At most one worker is in flight, and the submit button is disabled while a
\* worker is in flight or a signal of one is still to be delivered.
OneInFlight ==
    /\ Cardinality({w \in WorkerIds : InFlight(workers[w])}) <= 1
    /\ get_weather_button =>
           /\ \A w \in WorkerIds : ~InFlight(workers[w])
           /\ queue = <<>>

\* C16: in every step of every run of the application at most one WeatherWorker
\* is in flight, the submit button is disabled from the accepted start_worker until
\* worker_finished has run, and no worker is started while the button is disabled.
C16_OneWorkerInFlight ==
    [][/\ OneInFlight'
       /\ ~get_weather_button =>
              \A w \in WorkerIds :
                  workers'[w].pc = "queued" => workers[w].pc = "queued"]_vars

\* C16 witness: a worker waits between two generation requests, the button is
\* disabled and the other slots hold no worker.
C16_Witness ==
    \E w \in WorkerIds :
        /\ workers[w].pc = "sleep"
        /\ ~get_weather_button
        /\ \A v \in WorkerIds \ {w} : ~InFlight(workers[v])

\* C17, as the state it promises at the end of a run: once every worker has
\* returned and every queued signal has been delivered, nothing is left that could
\* enable the button, so the button is enabled by then.
C17_ButtonEnabledWhenRunOver ==
    (/\ ~aborted
     /\ queue = <<>>
     /\ \A w \in WorkerIds : ~InFlight(workers[w]))
        => get_weather_button

\* The log of three requests that were all answered with an error status, with
\* the waits.
ThreeErrorStatuses ==
    <<LogEntry("post", "http_error", "", 1), LogEntry("sleep", "", "", 1),
      LogEntry("post", "http_error", "", 2), LogEntry("sleep", "", "", 2),
      LogEntry("post", "http_error", "", 3)>>

\* C18: a 4xx/5xx answer of the generation endpoint is handled like a transport
\* failure: after attempt 1 the call waits 1 and after attempt 2 it waits 2, each
\* time followed by the next request; after attempt 3 it returns "AI reporter
\* failed to connect after multiple attempts."; it never makes the call return
\* "AI reporter analyzing data...".
C18_ErrorStatusRetried ==
    \A w \in WorkerIds :
        LET wk == workers[w]
            ops == GenOps(wk)
        IN  \A i \in 1..Len(ops) :
                (ops[i].op = "post" /\ ops[i].what = "http_error") =>
                    IF ops[i].n < max_retries
                    THEN /\ i = Len(ops) => wk.pc = "sleep"
                         /\ i < Len(ops) =>
                                ops[i + 1] = LogEntry("sleep", "", "", IF ops[i].n = 1 THEN 1 ELSE 2)
                         /\ i + 1 = Len(ops) => wk.pc = "post"
                         /\ i + 1 < Len(ops) =>
                                /\ ops[i + 2].op = "post"
                                /\ ops[i + 2].n = ops[i].n + 1
                    ELSE /\ i = Len(ops)
                         /\ wk.pc # "sleep"
                         /\ wk.ai_description = FailedToConnectText

\* C18 witness: three error statuses in a row have ended in the fallback.
C18_Witness ==
    \E w \in WorkerIds :
        /\ GenOps(workers[w]) = ThreeErrorStatuses
        /\ EmitCount(workers[w], "result") = 1
        /\ workers[w].ai_description = FailedToConnectText

\* C19: a start_worker step with an empty city shows "Please enter a city name."
\* through display_error (which also clears the other two labels), creates no
\* worker, queues nothing and leaves the button enabled and the application alive.
C19_EmptyCityMessage ==
    [][(start_worker /\ city_input = "") =>
           /\ temperature_label' = EnterCityMessage
           /\ emoji_label' = ""
           /\ description_label' = ""
           /\ workers' = workers
           /\ queue' = queue
           /\ get_weather_button'
           /\ ~aborted']_vars

\* The glyph the claim lists for a condition code.
ListedGlyph(code) ==
    CASE code \in 200..232 -> "thunderstorm"
      [] code \in 300..321 -> "sun behind rain cloud"
      [] code \in (500..504) \cup (520..531) -> "rain cloud"
      [] code = 511 -> "ice and rain"
      [] code \in 600..622 -> "snow cloud"
      [] code \in {701, 721, 741, 761} -> "fog"
      [] code = 711 -> "dash"
      [] code = 731 -> "fog"
      [] code = 751 -> "desert"
      [] code = 762 -> "volcano"
      [] code = 771 -> "dash"
      [] code = 781 -> "tornado"
      [] code = 800 -> "sun"
      [] code = 801 -> "sun behind small cloud"
      [] code = 802 -> "sun behind cloud"
      [] code = 803 -> "sun behind large cloud"
      [] code = 804 -> "cloud"
      [] OTHER -> "question mark"

\* C20: for the condition code of the run's weather body, at most one branch
\* condition of get_wether_emoji holds, the function returns the glyph of whichever
\* branch holds and the default glyph when none does, that glyph is the one listed
\* for the code, and it is the glyph display_weather has put in the emoji label.
C20_EmojiTable ==
    LET code == workers[1].raw.weather[1].id
        holds == {i \in 1..Len(EmojiBranches(code)) : EmojiBranches(code)[i]}
    IN  /\ Cardinality(holds) <= 1
        /\ \A i \in holds : get_wether_emoji(code) = BranchGlyphs[i]
        /\ holds = {} => get_wether_emoji(code) = "question mark"
        /\ get_wether_emoji(code) = ListedGlyph(code)
        /\ delivered[1] # <<>> => emoji_label = ListedGlyph(code)

\* C20 witness: display_weather has shown the glyph of code 511, which lies between
\* the two rain ranges.
C20_Witness ==
    /\ workers[1].raw.weather[1].id = 511
    /\ delivered[1] # <<>>
    /\ emoji_label = "ice and rain"

=============================================================================
